---- MODULE Spec2Model ----
(***************************************************************************)
(* Model of the gpx extension consumer (src/parser/extensions.rs) and of   *)
(* the DOM value types it builds (src/dom.rs).                             *)
(*                                                                         *)
(* The builder is a loop over the events of an xml-rs reader.  One action  *)
(* models one iteration of the loop (one arm of the match), the end of the *)
(* iterator, or the `?` on an Err item.  The events pulled from the reader *)
(* so far are kept in `events`, which is the reader's position.            *)
(***************************************************************************)
EXTENDS Integers, Sequences, FiniteSets, TLC

VARIABLES started, stack, events, result, cv

vars == <<started, stack, events, result, cv>>

(***************************************************************************)
(* Bounds.                                                                 *)
(***************************************************************************)
MaxEvents == 5

(***************************************************************************)
(* Option<T>: None is the empty sequence, Some(x) the one-element one.     *)
(***************************************************************************)
None == <<>>
Some(x) == <<x>>

(***************************************************************************)
(* dom.rs: names.  The xml-rs type and the DOM type are distinct types     *)
(* with the same three fields; `repr` is the type.                         *)
(***************************************************************************)
XmlOwnedName(l, ns, p) ==
    [repr |-> "xml", local_name |-> l, namespace |-> ns, prefix |-> p]

OwnedName(l, ns, p) ==
    [repr |-> "dom", local_name |-> l, namespace |-> ns, prefix |-> p]

OwnedName_from_swapped(other) ==
    OwnedName(other.local_name, other.prefix, other.namespace)

OwnedName_from(other) ==
    OwnedName(other.local_name, other.namespace, other.prefix)

XmlOwnedName_from(other) ==
    XmlOwnedName(other.local_name, other.namespace, other.prefix)

OwnedName_eq(a, b) ==
    /\ a.local_name = b.local_name
    /\ a.namespace = b.namespace
    /\ a.prefix = b.prefix

OwnedName_eq_xml_local_only(self, other) ==
    self.local_name = other.local_name

OwnedName_eq_xml(self, other) ==
    /\ self.local_name = other.local_name
    /\ self.namespace = other.namespace
    /\ self.prefix = other.prefix

XmlOwnedName_eq_dom_noprefix(self, other) ==
    /\ self.local_name = other.local_name
    /\ self.namespace = other.namespace

XmlOwnedName_eq_dom(self, other) ==
    /\ self.local_name = other.local_name
    /\ self.namespace = other.namespace
    /\ self.prefix = other.prefix

OwnedName_from_local_name(name) == OwnedName(name, None, None)

(***************************************************************************)
(* dom.rs: attributes.                                                     *)
(***************************************************************************)
XmlOwnedAttribute(n, v) == [repr |-> "xml", name |-> n, value |-> v]

OwnedAttribute(n, v) == [repr |-> "dom", name |-> n, value |-> v]

OwnedAttribute_from(other) ==
    OwnedAttribute(OwnedName_from(other.name), other.value)

XmlOwnedAttribute_from(other) ==
    XmlOwnedAttribute(XmlOwnedName_from(other.name), other.value)

(***************************************************************************)
(* dom.rs: namespaces.  The BTreeMap is a function from prefixes to URIs.  *)
(***************************************************************************)
XmlNamespace(m) == [repr |-> "xml", map |-> m]

Namespace(m) == [repr |-> "dom", map |-> m]

Namespace_from(other) == Namespace(other.map)

XmlNamespace_from(other) == XmlNamespace(other.map)

Namespace_new == Namespace(<<>>)

(***************************************************************************)
(* dom.rs: nodes and elements.                                             *)
(***************************************************************************)
Element_new(name, attributes, namespace) ==
    [name       |-> OwnedName_from(name),
     attributes |-> [i \in 1..Len(attributes) |-> OwnedAttribute_from(attributes[i])],
     namespace  |-> Namespace_from(namespace),
     children   |-> <<>>]

Element_with_name(name) ==
    [name       |-> name,
     attributes |-> <<>>,
     namespace  |-> Namespace_new,
     children   |-> <<>>]

Element_with_local_name(name) ==
    Element_with_name(OwnedName_from_local_name(name))

Text(data) == [type |-> "Text", data |-> data]

Comment(data) == [type |-> "Comment", data |-> data]

Node_Element(element) == [node |-> "Element", value |-> element]

Node_Text(text) == [node |-> "Text", value |-> text]

Node_Comment(comment) == [node |-> "Comment", value |-> comment]

(***************************************************************************)
(* Errors and results of consume.                                          *)
(***************************************************************************)
GpxError_TagOpenedTwice(tag) == [variant |-> "TagOpenedTwice", arg |-> tag]

GpxError_MissingClosingTag(tag) == [variant |-> "MissingClosingTag", arg |-> tag]

GpxError_from(e) == [variant |-> "UnderlyingReaderError", arg |-> e]

Running == [status |-> "Running", value |-> <<>>]

Ok(element) == [status |-> "Ok", value |-> <<element>>]

Err(error) == [status |-> "Err", value |-> <<error>>]

Panicked == [status |-> "Panic", value |-> <<>>]

(***************************************************************************)
(* The events the reader can deliver.                                      *)
(***************************************************************************)
XmlEvent_StartElement(name, attributes, namespace) ==
    [kind |-> "StartElement", name |-> name,
     attributes |-> attributes, namespace |-> namespace]

XmlEvent_EndElement(name) == [kind |-> "EndElement", name |-> name]

XmlEvent_Characters(data) == [kind |-> "Characters", data |-> data]

XmlEvent_Comment(data) == [kind |-> "Comment", data |-> data]

XmlEvent_Other(kind) == [kind |-> kind]

ReaderError(e) == [kind |-> "Error", error |-> e]

EndOfStream == [kind |-> "EndOfStream"]

InputNames ==
    { XmlOwnedName("extensions", None, None),
      XmlOwnedName("extensions", Some("urn:x"), Some("x")),
      XmlOwnedName("a", None, None),
      XmlOwnedName("a", Some("urn:x"), Some("x")),
      XmlOwnedName("b", None, None) }

NoAttributes == <<>>

CondNo == << XmlOwnedAttribute(XmlOwnedName("cond", None, None), "no") >>

InputStarts ==
    { XmlEvent_StartElement(XmlOwnedName("extensions", None, None),
                            NoAttributes, XmlNamespace(<<>>)),
      XmlEvent_StartElement(XmlOwnedName("extensions", Some("urn:x"), Some("x")),
                            CondNo, XmlNamespace([p \in {"x"} |-> "urn:x"])),
      XmlEvent_StartElement(XmlOwnedName("a", None, None),
                            NoAttributes, XmlNamespace(<<>>)),
      XmlEvent_StartElement(XmlOwnedName("a", Some("urn:x"), Some("x")),
                            NoAttributes, XmlNamespace([p \in {"x"} |-> "urn:x"])),
      XmlEvent_StartElement(XmlOwnedName("b", None, None),
                            CondNo, XmlNamespace(<<>>)) }

InputCharacters == {"hello", " "}

InputComments == {"note"}

InputOthers == {"ProcessingInstruction", "Whitespace"}

InputErrors == {"unexpected token", "io error"}

(***************************************************************************)
(* consume (extensions.rs:14-68).                                          *)
(***************************************************************************)
Init_empty_stack ==
    /\ started = FALSE
    /\ stack = <<>>
    /\ events = <<>>
    /\ result = Running
    /\ cv = [op |-> "none"]

Init ==
    /\ started = FALSE
    /\ stack = << Element_with_local_name("extensions") >>
    /\ events = <<>>
    /\ result = Running
    /\ cv = [op |-> "none"]

Pull(event) ==
    /\ result = Running
    /\ Len(events) < MaxEvents
    /\ events' = Append(events, event)

Last(s) == s[Len(s)]

Front(s) == SubSeq(s, 1, Len(s) - 1)

PushChild_front(stk, node) ==
    [stk EXCEPT ![Len(stk)].children = <<node>> \o @]

PushChild(stk, node) ==
    [stk EXCEPT ![Len(stk)].children = Append(@, node)]

consume_StartElement_unqualified(name, attributes, namespace) ==
    /\ Pull(XmlEvent_StartElement(name, attributes, namespace))
    /\ IF OwnedName_eq_xml(OwnedName_from_local_name("extensions"), name)
       THEN IF started
            THEN /\ result' = Err(GpxError_TagOpenedTwice("extensions"))
                 /\ UNCHANGED <<started, stack>>
            ELSE /\ started' = TRUE
                 /\ UNCHANGED <<stack, result>>
       ELSE /\ stack' = Append(stack, Element_new(name, attributes, namespace))
            /\ UNCHANGED <<started, result>>
    /\ UNCHANGED cv

consume_StartElement_adopt_root(name, attributes, namespace) ==
    /\ Pull(XmlEvent_StartElement(name, attributes, namespace))
    /\ IF name.local_name = "extensions"
       THEN IF started
            THEN /\ result' = Err(GpxError_TagOpenedTwice("extensions"))
                 /\ UNCHANGED <<started, stack>>
            ELSE /\ started' = TRUE
                 /\ stack' = [stack EXCEPT ![1] =
                                  [Element_new(name, attributes, namespace)
                                      EXCEPT !.children = stack[1].children]]
                 /\ UNCHANGED result
       ELSE /\ stack' = Append(stack, Element_new(name, attributes, namespace))
            /\ UNCHANGED <<started, result>>
    /\ UNCHANGED cv

consume_StartElement(name, attributes, namespace) ==
    /\ Pull(XmlEvent_StartElement(name, attributes, namespace))
    /\ IF name.local_name = "extensions"
       THEN IF started
            THEN /\ result' = Err(GpxError_TagOpenedTwice("extensions"))
                 /\ UNCHANGED <<started, stack>>
            ELSE /\ started' = TRUE
                 /\ UNCHANGED <<stack, result>>
       ELSE /\ stack' = Append(stack, Element_new(name, attributes, namespace))
            /\ UNCHANGED <<started, result>>
    /\ UNCHANGED cv

consume_EndElement_lenient(name) ==
    /\ Pull(XmlEvent_EndElement(name))
    /\ IF name.local_name = "extensions"
       THEN /\ IF Len(stack) = 1
               THEN result' = Ok(stack[1])
               ELSE result' = Panicked
            /\ UNCHANGED <<started, stack>>
       ELSE LET element == Last(stack)
                rest == Front(stack)
            IN  IF OwnedName_eq_xml(element.name, name)
                THEN /\ stack' = PushChild(rest, Node_Element(element))
                     /\ UNCHANGED <<started, result>>
                ELSE UNCHANGED <<started, stack, result>>
    /\ UNCHANGED cv

consume_EndElement_await_start(name) ==
    /\ Pull(XmlEvent_EndElement(name))
    /\ IF name.local_name = "extensions"
       THEN /\ IF ~started
               THEN result' = result
               ELSE IF Len(stack) = 1
                    THEN result' = Ok(stack[1])
                    ELSE result' = Panicked
            /\ UNCHANGED <<started, stack>>
       ELSE LET element == Last(stack)
                rest == Front(stack)
            IN  IF OwnedName_eq_xml(element.name, name)
                THEN /\ stack' = PushChild(rest, Node_Element(element))
                     /\ UNCHANGED <<started, result>>
                ELSE /\ result' = Err(GpxError_MissingClosingTag("EXTENSION MALFORMED"))
                     /\ stack' = rest
                     /\ UNCHANGED started
    /\ UNCHANGED cv

consume_EndElement(name) ==
    /\ Pull(XmlEvent_EndElement(name))
    /\ IF name.local_name = "extensions"
       THEN /\ IF Len(stack) = 1
               THEN result' = Ok(stack[1])
               ELSE result' = Panicked
            /\ UNCHANGED <<started, stack>>
       ELSE LET element == Last(stack)
                rest == Front(stack)
            IN  IF OwnedName_eq_xml(element.name, name)
                THEN /\ stack' = PushChild(rest, Node_Element(element))
                     /\ UNCHANGED <<started, result>>
                ELSE /\ result' = Err(GpxError_MissingClosingTag("EXTENSION MALFORMED"))
                     /\ stack' = rest
                     /\ UNCHANGED started
    /\ UNCHANGED cv

consume_Characters_trimmed(data) ==
    /\ Pull(XmlEvent_Characters(data))
    /\ IF data = " "
       THEN stack' = stack
       ELSE stack' = PushChild(stack, Node_Text(Text(data)))
    /\ UNCHANGED <<started, result, cv>>

consume_Characters(data) ==
    /\ Pull(XmlEvent_Characters(data))
    /\ stack' = PushChild(stack, Node_Text(Text(data)))
    /\ UNCHANGED <<started, result, cv>>

consume_Comment_to_root(data) ==
    /\ Pull(XmlEvent_Comment(data))
    /\ stack' = [stack EXCEPT ![1].children = Append(@, Node_Comment(Comment(data)))]
    /\ UNCHANGED <<started, result, cv>>

consume_Comment(data) ==
    /\ Pull(XmlEvent_Comment(data))
    /\ stack' = PushChild(stack, Node_Comment(Comment(data)))
    /\ UNCHANGED <<started, result, cv>>

consume_Other_kept(kind) ==
    /\ Pull(XmlEvent_Other(kind))
    /\ IF kind = "ProcessingInstruction"
       THEN stack' = PushChild(stack, [node |-> "ProcessingInstruction",
                                       value |-> [name |-> "pi", data |-> None]])
       ELSE stack' = stack
    /\ UNCHANGED <<started, result, cv>>

consume_Other(kind) ==
    /\ Pull(XmlEvent_Other(kind))
    /\ UNCHANGED <<started, stack, result, cv>>

consume_Error_skipped(e) ==
    /\ Pull(ReaderError(e))
    /\ UNCHANGED <<started, stack, result, cv>>

consume_Error(e) ==
    /\ Pull(ReaderError(e))
    /\ result' = Err(GpxError_from(e))
    /\ UNCHANGED <<started, stack, cv>>

consume_EndOfStream_partial ==
    /\ Pull(EndOfStream)
    /\ result' = IF started
                 THEN Ok(stack[1])
                 ELSE Err(GpxError_MissingClosingTag("extensions"))
    /\ UNCHANGED <<started, stack, cv>>

consume_EndOfStream_malformed ==
    /\ Pull(EndOfStream)
    /\ result' = Err(GpxError_MissingClosingTag("EXTENSION MALFORMED"))
    /\ UNCHANGED <<started, stack, cv>>

consume_EndOfStream ==
    /\ Pull(EndOfStream)
    /\ result' = Err(GpxError_MissingClosingTag("extensions"))
    /\ UNCHANGED <<started, stack, cv>>

Next ==
    \/ \E ev \in InputStarts :
          consume_StartElement(ev.name, ev.attributes, ev.namespace)
    \/ \E name \in InputNames : consume_EndElement(name)
    \/ \E data \in InputCharacters : consume_Characters(data)
    \/ \E data \in InputComments : consume_Comment(data)
    \/ \E kind \in InputOthers : consume_Other(kind)
    \/ \E e \in InputErrors : consume_Error(e)
    \/ consume_EndOfStream

Spec == Init /\ [][Next]_vars

(***************************************************************************)
(* Conversions and comparisons of the value types (dom.rs), applied to     *)
(* inputs drawn from small sets.                                           *)
(***************************************************************************)
ConvLocals == {"extensions", "a"}

ConvUris == {None, Some("urn:x"), Some("urn:y")}

ConvPrefixes == {None, Some("x"), Some("y")}

ConvValues == {"no", ""}

ConvMaps ==
    UNION { [d -> {"urn:x", "urn:y"}] : d \in SUBSET {"x", "y"} }

DomNames ==
    { OwnedName(l, ns, p) : l \in ConvLocals, ns \in ConvUris, p \in ConvPrefixes }

XmlNames ==
    { XmlOwnedName(l, ns, p) : l \in ConvLocals, ns \in ConvUris, p \in ConvPrefixes }

InitConv ==
    /\ started = FALSE
    /\ stack = << Element_with_local_name("extensions") >>
    /\ events = <<>>
    /\ result = Running
    /\ cv = [op |-> "none"]

ConvertName ==
    /\ \E v \in DomNames \cup XmlNames :
          cv' = [op |-> "name", input |-> v,
                 output |-> IF v.repr = "dom"
                            THEN OwnedName_from(XmlOwnedName_from(v))
                            ELSE XmlOwnedName_from(OwnedName_from(v))]
    /\ UNCHANGED <<started, stack, events, result>>

ConvertAttribute ==
    /\ \E n \in DomNames \cup XmlNames, value \in ConvValues :
          LET v == [repr |-> n.repr, name |-> n, value |-> value]
          IN  cv' = [op |-> "attribute", input |-> v,
                     output |-> IF v.repr = "dom"
                                THEN OwnedAttribute_from(XmlOwnedAttribute_from(v))
                                ELSE XmlOwnedAttribute_from(OwnedAttribute_from(v))]
    /\ UNCHANGED <<started, stack, events, result>>

ConvertNamespace ==
    /\ \E m \in ConvMaps, repr \in {"dom", "xml"} :
          LET v == [repr |-> repr, map |-> m]
          IN  cv' = [op |-> "namespace", input |-> v,
                     output |-> IF v.repr = "dom"
                                THEN Namespace_from(XmlNamespace_from(v))
                                ELSE XmlNamespace_from(Namespace_from(v))]
    /\ UNCHANGED <<started, stack, events, result>>

CompareNames ==
    /\ \E a \in DomNames, b \in XmlNames :
          cv' = [op |-> "eq", a |-> a, b |-> b,
                 dom_xml |-> OwnedName_eq_xml(a, b),
                 xml_dom |-> XmlOwnedName_eq_dom(b, a),
                 dom_dom |-> OwnedName_eq(a, OwnedName_from(b))]
    /\ UNCHANGED <<started, stack, events, result>>

NextConv ==
    \/ ConvertName
    \/ ConvertAttribute
    \/ ConvertNamespace
    \/ CompareNames

SpecConv == InitConv /\ [][NextConv]_vars

(***************************************************************************)
(* Reading the pulled events: what the input was, independently of the     *)
(* builder's own variables.                                                *)
(***************************************************************************)
IsRootStart(e) == e.kind = "StartElement" /\ e.name.local_name = "extensions"

IsRootEnd(e) == e.kind = "EndElement" /\ e.name.local_name = "extensions"

IsInnerStart(e) == e.kind = "StartElement" /\ e.name.local_name # "extensions"

IsInnerEnd(e) == e.kind = "EndElement" /\ e.name.local_name # "extensions"

Prefix(s, n) == SubSeq(s, 1, n)

Inner(s) == SubSeq(s, 2, Len(s) - 1)

RECURSIVE Balanced(_, _)
Balanced(s, open) ==
    IF s = <<>>
    THEN open = <<>>
    ELSE LET e == Head(s)
         IN  CASE IsInnerStart(e) -> Balanced(Tail(s), Append(open, e.name))
               [] IsInnerEnd(e) -> /\ open # <<>>
                                   /\ Last(open) = e.name
                                   /\ Balanced(Tail(s), Front(open))
               [] e.kind \in {"Characters", "Comment"} -> Balanced(Tail(s), open)
               [] OTHER -> FALSE

WellFormed(s) ==
    /\ Len(s) >= 2
    /\ IsRootStart(s[1])
    /\ IsRootEnd(Last(s))
    /\ Last(s).name = s[1].name
    /\ Balanced(Inner(s), <<>>)

RECURSIVE EventsOfNodes(_)
EventsOfNodes(nodes) ==
    IF nodes = <<>>
    THEN <<>>
    ELSE LET n == Head(nodes)
             own == CASE n.node = "Element" ->
                           << XmlEvent_StartElement(
                                  XmlOwnedName_from(n.value.name),
                                  [i \in 1..Len(n.value.attributes) |->
                                      XmlOwnedAttribute_from(n.value.attributes[i])],
                                  XmlNamespace_from(n.value.namespace)) >>
                           \o EventsOfNodes(n.value.children)
                           \o << XmlEvent_EndElement(XmlOwnedName_from(n.value.name)) >>
                      [] n.node = "Text" -> << XmlEvent_Characters(n.value.data) >>
                      [] n.node = "Comment" -> << XmlEvent_Comment(n.value.data) >>
         IN  own \o EventsOfNodes(Tail(nodes))

RECURSIVE OpenNames(_)
OpenNames(s) ==
    IF s = <<>>
    THEN <<>>
    ELSE LET e == Last(s)
             before == OpenNames(Front(s))
         IN  CASE IsInnerStart(e) -> Append(before, e.name)
               [] IsInnerEnd(e) -> IF before = <<>> THEN <<>> ELSE Front(before)
               [] OTHER -> before

DuplicateRootAt(s, i) ==
    /\ IsRootStart(s[i])
    /\ \E j \in 1..(i - 1) : IsRootStart(s[j])

MismatchAt(s, i) ==
    /\ IsInnerEnd(s[i])
    /\ LET open == OpenNames(Prefix(s, i - 1))
       IN  open = <<>> \/ Last(open) # s[i].name

StreamErrorAt(s, i) == s[i].kind = "Error"

ViolationAt(s, i) ==
    DuplicateRootAt(s, i) \/ MismatchAt(s, i) \/ StreamErrorAt(s, i)

Tree == result.value[1]

Error == result.value[1]

(***************************************************************************)
(* C1: a well-formed, properly nested event sequence from a start-element  *)
(* named 'extensions' to its matching end-element, with only non-root      *)
(* start/end pairs, characters and comments between them, makes consume    *)
(* return Ok with an Element whose local name is 'extensions' and whose    *)
(* children, written back as events in order, are exactly the events       *)
(* between the root tags.                                                  *)
(***************************************************************************)
WellFormedYieldsMirrorTree ==
    WellFormed(events) =>
        /\ result.status = "Ok"
        /\ Tree.name.local_name = "extensions"
        /\ EventsOfNodes(Tree.children) = Inner(events)

WellFormedNestedConsumed ==
    /\ WellFormed(events)
    /\ result.status = "Ok"
    /\ Len(events) = 5
    /\ IsInnerStart(events[2])
    /\ events[3].kind \in {"Characters", "Comment"}
    /\ Len(Tree.children) = 1
    /\ Len(Tree.children[1].value.children) = 1

(***************************************************************************)
(* C2: a start-element with local name 'extensions' consumed after an      *)
(* earlier root start-element, at any depth and with any namespace or      *)
(* prefix, makes consume fail with TagOpenedTwice and return no tree.      *)
(***************************************************************************)
DuplicateRootFails ==
    (events # <<>> /\ DuplicateRootAt(events, Len(events))) =>
        result = Err(GpxError_TagOpenedTwice("extensions"))

DuplicateRootNestedPrefixed ==
    /\ events # <<>>
    /\ DuplicateRootAt(events, Len(events))
    /\ Last(events).name.prefix # None
    /\ Len(stack) > 1
    /\ result.status = "Err"

(***************************************************************************)
(* C3: a non-root end-element whose name (local name, namespace, prefix)   *)
(* differs from the name of the stack top makes consume fail with          *)
(* MissingClosingTag("EXTENSION MALFORMED"); when the names are equal the  *)
(* popped element becomes the last child of the new stack top and          *)
(* consumption continues.                                                  *)
(***************************************************************************)
EndElementStep ==
    (events' # events /\ IsInnerEnd(Last(events'))) =>
        LET name == Last(events').name
            top == Last(stack)
        IN  IF \/ top.name.local_name # name.local_name
               \/ top.name.namespace # name.namespace
               \/ top.name.prefix # name.prefix
            THEN result' = Err(GpxError_MissingClosingTag("EXTENSION MALFORMED"))
            ELSE /\ result' = Running
                 /\ Len(stack') = Len(stack) - 1
                 /\ Last(stack').children =
                        Append(stack[Len(stack) - 1].children, Node_Element(top))

MismatchedEndFailsMatchingEndAttaches == [][EndElementStep]_vars

MatchedThenMismatchedEnd ==
    /\ Len(events) >= 4
    /\ IsInnerEnd(events[Len(events) - 1])
    /\ IsInnerEnd(Last(events))
    /\ Last(events).name.local_name = "a"
    /\ result = Err(GpxError_MissingClosingTag("EXTENSION MALFORMED"))

(***************************************************************************)
(* C4: when the stream ends before an end-element named 'extensions' has   *)
(* been consumed, with or without the root start-element, consume fails    *)
(* with MissingClosingTag("extensions") and returns no tree.               *)
(***************************************************************************)
EndOfStreamIsUnterminated ==
    (events # <<>> /\ Last(events).kind = "EndOfStream") =>
        result = Err(GpxError_MissingClosingTag("extensions"))

EndOfStreamInsideOpenElement ==
    /\ events # <<>>
    /\ Last(events).kind = "EndOfStream"
    /\ started
    /\ Len(stack) > 1
    /\ result.status = "Err"

(***************************************************************************)
(* C5: an error yielded by the event source is returned by consume as      *)
(* that error, not as duplicate-root, malformed or unterminated, in        *)
(* whatever state of the builder it occurs.                                *)
(***************************************************************************)
ReaderErrorPropagated ==
    (events # <<>> /\ Last(events).kind = "Error") =>
        /\ result.status = "Err"
        /\ Error.variant = "UnderlyingReaderError"
        /\ Error.arg = Last(events).error

ReaderErrorWhileNested ==
    /\ events # <<>>
    /\ Last(events).kind = "Error"
    /\ started
    /\ Len(stack) > 1
    /\ result.status = "Err"

(***************************************************************************)
(* C6: the first violation (duplicate root, mismatched closing tag or      *)
(* stream error) ends the call: the offending event is the last one        *)
(* pulled, one error and no Element is returned, and nothing follows.      *)
(***************************************************************************)
FirstViolationAborts ==
    (\E i \in 1..Len(events) : ViolationAt(events, i)) =>
        /\ ViolationAt(events, Len(events))
        /\ \A i \in 1..(Len(events) - 1) : ~ViolationAt(events, i)
        /\ result.status = "Err"
        /\ Len(result.value) = 1
        /\ Error.variant \in {"TagOpenedTwice", "MissingClosingTag",
                              "UnderlyingReaderError"}

ViolationAfterProgress ==
    /\ Len(events) >= 4
    /\ MismatchAt(events, Len(events))
    /\ started
    /\ \E i \in 1..(Len(events) - 1) : events[i].kind = "Characters"
    /\ result.status = "Err"

(***************************************************************************)
(* C7: on success the events pulled are exactly those up to and including  *)
(* the first end-element with local name 'extensions'.                     *)
(***************************************************************************)
SuccessStopsAtFirstRootEnd ==
    result.status = "Ok" =>
        /\ events # <<>>
        /\ IsRootEnd(Last(events))
        /\ \A i \in 1..(Len(events) - 1) : ~IsRootEnd(events[i])

SuccessAfterContent ==
    /\ result.status = "Ok"
    /\ Len(events) >= 3
    /\ IsRootStart(events[1])
    /\ IsRootEnd(Last(events))

(***************************************************************************)
(* C8: converting an OwnedName, OwnedAttribute or Namespace to the other   *)
(* representation and back yields the value converted, from either side.   *)
(***************************************************************************)
RoundTripIsIdentity ==
    cv.op \in {"name", "attribute", "namespace"} => cv.output = cv.input

RoundTripOfQualifiedAttribute ==
    /\ cv.op = "attribute"
    /\ cv.input.name.namespace = Some("urn:y")
    /\ cv.input.name.prefix = Some("x")
    /\ cv.output.value = "no"

(***************************************************************************)
(* C9: two names are equal exactly when local name, namespace and prefix   *)
(* are all equal, the same for DOM == xml-rs, xml-rs == DOM and DOM == the *)
(* conversion of the xml-rs name.                                          *)
(***************************************************************************)
NameEqualityIsFieldwise ==
    cv.op = "eq" =>
        LET same == /\ cv.a.local_name = cv.b.local_name
                    /\ cv.a.namespace = cv.b.namespace
                    /\ cv.a.prefix = cv.b.prefix
        IN  /\ cv.dom_xml = same
            /\ cv.xml_dom = same
            /\ cv.dom_dom = same

NamesDifferingInPrefixOnly ==
    /\ cv.op = "eq"
    /\ cv.a.local_name = cv.b.local_name
    /\ cv.a.namespace = cv.b.namespace
    /\ cv.a.prefix # cv.b.prefix
    /\ ~cv.dom_xml

(***************************************************************************)
(* C10: the four failure classes are distinguishable values: the class     *)
(* read off the returned error is the class of what happened.              *)
(***************************************************************************)
ClassOfError(error) ==
    CASE error = GpxError_TagOpenedTwice("extensions") -> "DuplicateRootTag"
      [] error = GpxError_MissingClosingTag("EXTENSION MALFORMED") -> "MalformedExtension"
      [] error = GpxError_MissingClosingTag("extensions") -> "UnterminatedRoot"
      [] error.variant = "UnderlyingReaderError" -> "UnderlyingReaderError"
      [] OTHER -> "Unknown"

ClassOfCause(s) ==
    CASE Last(s).kind = "Error" -> "UnderlyingReaderError"
      [] Last(s).kind = "EndOfStream" -> "UnterminatedRoot"
      [] IsInnerEnd(Last(s)) -> "MalformedExtension"
      [] IsRootStart(Last(s)) -> "DuplicateRootTag"
      [] OTHER -> "None"

FailureClassesDistinct ==
    result.status = "Err" => ClassOfError(Error) = ClassOfCause(events)

UnterminatedAfterClosedChild ==
    /\ result.status = "Err"
    /\ Len(events) >= 4
    /\ Last(events).kind = "EndOfStream"
    /\ IsInnerEnd(events[Len(events) - 1])

(***************************************************************************)
(* C11: whenever an end-element with local name 'extensions' is consumed   *)
(* the stack holds exactly the root shell, so the assertion                *)
(* stack.len() == 1 holds and a tree is returned.                          *)
(***************************************************************************)
RootEndFindsOnlyRootShell ==
    (events # <<>> /\ IsRootEnd(Last(events))) =>
        /\ Len(stack) = 1
        /\ result.status = "Ok"

(***************************************************************************)
(* C12: consume returns a tree only if a start-element with local name     *)
(* 'extensions' was consumed earlier in the same call.                     *)
(***************************************************************************)
SuccessOnlyAfterRootStart ==
    result.status = "Ok" =>
        \E i \in 1..Len(events) : IsRootStart(events[i])

(***************************************************************************)
(* C13: an event consumed before the root start-element creates no node:   *)
(* until a root start-element has been consumed the stack is the empty     *)
(* root shell.                                                             *)
(***************************************************************************)
NoNodeBeforeRootStart ==
    (result = Running /\ \A i \in 1..Len(events) : ~IsRootStart(events[i])) =>
        stack = << Element_with_local_name("extensions") >>

(***************************************************************************)
(* C14: a characters event appends exactly one Text node, a comment event  *)
(* exactly one Comment node, with the event's string unchanged, as the     *)
(* last child of the stack top; the depth of the stack, the earlier        *)
(* children of the top and every other element stay as they were.          *)
(***************************************************************************)
TextStep ==
    (events' # events /\ Last(events').kind \in {"Characters", "Comment"}) =>
        LET e == Last(events')
            n == Len(stack)
            added == Last(stack'[n].children)
        IN  /\ Len(stack') = n
            /\ \A i \in 1..(n - 1) : stack'[i] = stack[i]
            /\ stack'[n].name = stack[n].name
            /\ stack'[n].attributes = stack[n].attributes
            /\ stack'[n].namespace = stack[n].namespace
            /\ Len(stack'[n].children) = Len(stack[n].children) + 1
            /\ Front(stack'[n].children) = stack[n].children
            /\ added.node = (IF e.kind = "Characters" THEN "Text" ELSE "Comment")
            /\ added.value.type = added.node
            /\ added.value.data = e.data

CharactersAndCommentsAppendVerbatim == [][TextStep]_vars

WhitespaceTextAfterSibling ==
    /\ events # <<>>
    /\ Last(events) = XmlEvent_Characters(" ")
    /\ Len(stack) > 1
    /\ Len(Last(stack).children) >= 2
    /\ Last(Last(stack).children).value.data = " "

(***************************************************************************)
(* C15: a processing-instruction event, and every event of a kind other    *)
(* than start-element, end-element, characters and comment, leaves the     *)
(* started flag, the stack and all children unchanged, produces no error,  *)
(* and no ProcessingInstruction node is ever in the tree.                  *)
(***************************************************************************)
RECURSIVE HasProcessingInstruction(_)
HasProcessingInstruction(nodes) ==
    \E i \in 1..Len(nodes) :
        \/ nodes[i].node = "ProcessingInstruction"
        \/ /\ nodes[i].node = "Element"
           /\ HasProcessingInstruction(nodes[i].value.children)

IgnoredStep ==
    (events' # events /\ Last(events').kind \in InputOthers) =>
        /\ started' = started
        /\ stack' = stack
        /\ result' = result
        /\ result' = Running

NoProcessingInstructionNode ==
    \A i \in 1..Len(stack) : ~HasProcessingInstruction(stack[i].children)

OtherEventsAreDropped == [][IgnoredStep]_vars /\ []NoProcessingInstructionNode

ProcessingInstructionInsideElementDropped ==
    /\ result.status = "Ok"
    /\ Len(events) = 5
    /\ IsRootStart(events[1])
    /\ IsInnerStart(events[2])
    /\ events[3].kind = "ProcessingInstruction"
    /\ Tree.children[1].value.children = <<>>

(***************************************************************************)
(* C16: an Element changes only while it is the top of the stack (the      *)
(* parent of a closed element is the top once that element is popped, and  *)
(* only then receives it): every element below the top after a step is as *)
(* it was before, the element on top keeps its name, attributes, namespace *)
(* and earlier children, a popped element is attached as it was, and the   *)
(* tree returned is the root as it stood.                                  *)
(***************************************************************************)
IsPrefixOf(s, t) == Len(s) <= Len(t) /\ SubSeq(t, 1, Len(s)) = s

FrozenStep ==
    LET n == Len(stack)
        m == Len(stack')
    IN  /\ \A i \in 1..(m - 1) : stack'[i] = stack[i]
        /\ (m >= 1 /\ m <= n) =>
               /\ stack'[m].name = stack[m].name
               /\ stack'[m].attributes = stack[m].attributes
               /\ stack'[m].namespace = stack[m].namespace
               /\ IsPrefixOf(stack[m].children, stack'[m].children)
        /\ (m = n - 1 /\ result' = Running) =>
               /\ Len(stack'[m].children) = Len(stack[m].children) + 1
               /\ Last(stack'[m].children).node = "Element"
               /\ Last(stack'[m].children).value = stack[n]
        /\ result'.status = "Ok" => result'.value[1] = stack[1]

OnlyTheTopChanges == [][FrozenStep]_vars

AttachedSubtreeKeptWhileParentGrows ==
    /\ result = Running
    /\ Len(events) = 5
    /\ Last(events).kind = "Comment"
    /\ Len(stack) = 1
    /\ Len(stack[1].children) = 2
    /\ stack[1].children[1].node = "Element"
    /\ Len(stack[1].children[1].value.children) = 1

(***************************************************************************)
(* C17: while the loop runs the stack is non-empty with the root shell at  *)
(* the bottom and its length is 1 plus the number of non-root elements     *)
(* opened and not yet closed, so every last_mut().unwrap() and             *)
(* pop().unwrap() finds an element; a non-root end-element arriving when   *)
(* only the root shell is open yields the malformed-extension error.       *)
(***************************************************************************)
StackTopAlwaysPresent ==
    /\ result = Running =>
          /\ Len(stack) >= 1
          /\ stack[1].name.local_name = "extensions"
          /\ stack[1].name.namespace = None
          /\ stack[1].name.prefix = None
          /\ Len(stack) = 1 + Len(OpenNames(events))
    /\ (events # <<>> /\ IsInnerEnd(Last(events))
                      /\ OpenNames(Front(events)) = <<>>) =>
          result = Err(GpxError_MissingClosingTag("EXTENSION MALFORMED"))

InnerEndWithOnlyRootShellOpen ==
    /\ Len(events) >= 4
    /\ started
    /\ IsInnerEnd(events[Len(events) - 1])
    /\ IsInnerEnd(Last(events))
    /\ OpenNames(Front(events)) = <<>>
    /\ result.status = "Err"

(***************************************************************************)
(* C18: the root Element returned has local name 'extensions', no          *)
(* namespace URI, no prefix, no attributes and an empty namespace mapping  *)
(* whatever the root start-element carried; every non-root open element    *)
(* carries the name, attributes and namespace of its start-element.        *)
(***************************************************************************)
RECURSIVE OpenStarts(_)
OpenStarts(s) ==
    IF s = <<>>
    THEN <<>>
    ELSE LET e == Last(s)
             before == OpenStarts(Front(s))
         IN  CASE IsInnerStart(e) -> Append(before, e)
               [] IsInnerEnd(e) -> IF before = <<>> THEN <<>> ELSE Front(before)
               [] OTHER -> before

SameNameFields(a, b) ==
    /\ a.local_name = b.local_name
    /\ a.namespace = b.namespace
    /\ a.prefix = b.prefix

CarriesStart(element, e) ==
    /\ SameNameFields(element.name, e.name)
    /\ Len(element.attributes) = Len(e.attributes)
    /\ \A k \in 1..Len(e.attributes) :
          /\ SameNameFields(element.attributes[k].name, e.attributes[k].name)
          /\ element.attributes[k].value = e.attributes[k].value
    /\ element.namespace.map = e.namespace.map

RootIsBareShellInnerKeepStart ==
    /\ result.status = "Ok" =>
          /\ Tree.name.local_name = "extensions"
          /\ Tree.name.namespace = None
          /\ Tree.name.prefix = None
          /\ Tree.attributes = <<>>
          /\ Tree.namespace.map = <<>>
    /\ result = Running =>
          LET open == OpenStarts(events)
          IN  /\ Len(stack) = Len(open) + 1
              /\ \A i \in 1..Len(open) : CarriesStart(stack[i + 1], open[i])

QualifiedRootStartReturnsBareRoot ==
    /\ result.status = "Ok"
    /\ Len(events) >= 4
    /\ IsRootStart(events[1])
    /\ events[1].name.prefix # None
    /\ events[1].attributes # <<>>
    /\ Len(Tree.children) = 1
    /\ Tree.children[1].node = "Element"
    /\ Tree.children[1].value.attributes # <<>>

====
